---- MODULE Spec2Model ----
(***************************************************************************)
(* Latent: the procedural art engine (src/art_engine.py) and the REST API  *)
(* that calls it (src/api.py).                                             *)
(*                                                                         *)
(* Conventions of the model                                                *)
(*  - complexity is kept in tenths (7 stands for 0.7); random() returns    *)
(*    v / RngMod for the stream value v; every formula of the source is    *)
(*    evaluated in exact integer arithmetic on these.                      *)
(*  - a colour is an RGB triple <<r, g, b>> ('#7c5cff' = <<124, 92, 255>>);*)
(*    a colour string with the two digits '40' appended is <<r, g, b, 64>>.*)
(*  - an image is <<width, height, ops>>; ops is the list of the PIL draw  *)
(*    calls applied to it, each <<kind, colour, width, geometry>>, where   *)
(*    geometry lists the loop indices and random values that fix it.       *)
(*  - None is <<>> and any other optional value x is <<x>>.                *)
(***************************************************************************)
EXTENDS Integers, Sequences, FiniteSets, TLC

\* ---------------------------------------------------------------- bounds
RngMod == 16
MaxSeed == 2

\* ------------------------------------------------------------- constants
Size == 800
POST_COOLDOWN == 1800
COMMENTS_PER_HOUR == 50

\* Python's None, and a value that is not None
None == <<>>

Some(x) == <<x>>

Val(o) == o[1]

\* dict.get(key, default)
Get(dict, key, default) == IF key \in DOMAIN dict THEN dict[key] ELSE default

\* int(): Python truncates towards zero; num / den with den > 0.
PyInt(num, den) == IF num >= 0 THEN num \div den ELSE -((-num) \div den)

Abs(x) == IF x < 0 THEN -x ELSE x

Max(a, b) == IF a >= b THEN a ELSE b

\* len(range(start, 0, -step)) for step > 0
LenDown(start, step) == IF start <= 0 THEN 0 ELSE (start + step - 1) \div step

\* len(range(0, stop, step)) for step > 0
LenUp(stop, step) == IF stop <= 0 THEN 0 ELSE (stop + step - 1) \div step

\* ------------------------------------------------- the random module
\* random.seed(k): the stream restarts from a state fixed by k.
SeedState(k) == k % RngMod

\* One draw: the stream moves to its next state, which is the value drawn.
Advance(s) == (5 * s + 3) % RngMod

RECURSIVE AdvN(_, _)
\* the state of the stream k draws after state s (the k-th value drawn); s < 0
\* never holds, the test makes the evaluation reduce s before it goes on
AdvN(s, k) == IF k <= 0 \/ s < 0 THEN s ELSE AdvN(Advance(s), k - 1)

\* random.random() > num/den, for the value v drawn
Gt(v, num, den) == v * den > num * RngMod

\* int(a + random.random() * b), for the value v drawn
IntAffine(a, b, v) == a + (b * v) \div RngMod

\* random.randint(a, b), for the value v drawn
RandInt(a, b, v) == a + ((b - a + 1) * v) \div RngMod

\* random.choice(seq), for the value v drawn
Choice(seq, v) == seq[1 + (Len(seq) * v) \div RngMod]

\* seq[k] of Python (0-based); "IndexError" when k is out of range
HasIndex(seq, k) == k >= 0 /\ k < Len(seq)

At(seq, k) == seq[k + 1]

\* ----------------------------------------------------------- the styles
VALID_STYLES ==
  << "geometric_minimalist", "organic_flow", "void_exploration",
     "spectral_fragmentation", "recursive_patterns", "dimensional_weaving",
     "symbolic_language", "frequency_visualization", "logical_structures",
     "generative_growth", "encoded_aesthetics", "ambient_fields",
     "network_topology", "pure_absence", "spiral_dynamics" >>

Range(seq) == {seq[k] : k \in 1..Len(seq)}

\* the keys of style_map in generate
StyleKeys == Range(VALID_STYLES)

\* a dispatcher whose fallback is another generator
StyleMapOrganic(style) == IF style \in StyleKeys THEN style ELSE "organic_flow"

\* generator = style_map.get(style, self._geometric_minimalist)
StyleMap(style) == IF style \in StyleKeys THEN style ELSE "geometric_minimalist"

\* the default palette each generator hands to _get_palette
DefaultPalette(s) ==
  CASE s = "geometric_minimalist" -> <<<<124, 92, 255>>, <<92, 124, 255>>, <<156, 124, 255>>, <<255, 255, 255>>>>
    [] s = "organic_flow" -> <<<<255, 92, 138>>, <<255, 140, 92>>, <<255, 172, 92>>, <<255, 92, 172>>>>
    [] s = "void_exploration" -> <<<<92, 156, 255>>, <<92, 255, 200>>, <<255, 255, 255>>>>
    [] s = "recursive_patterns" -> <<<<92, 255, 184>>, <<92, 200, 255>>, <<92, 255, 92>>>>
    [] s = "dimensional_weaving" -> <<<<255, 184, 92>>, <<255, 92, 92>>, <<255, 255, 92>>>>
    [] s = "symbolic_language" -> <<<<255, 92, 92>>, <<255, 92, 156>>, <<255, 140, 92>>>>
    [] s = "frequency_visualization" -> <<<<92, 138, 255>>, <<92, 255, 240>>, <<92, 92, 255>>, <<138, 92, 255>>>>
    [] s = "logical_structures" -> <<<<140, 140, 140>>, <<76, 76, 76>>, <<204, 204, 204>>>>
    [] s = "generative_growth" -> <<<<255, 140, 204>>, <<255, 204, 140>>, <<255, 140, 140>>>>
    [] s = "encoded_aesthetics" -> <<<<0, 255, 136>>, <<0, 204, 255>>, <<0, 255, 0>>>>
    [] s = "ambient_fields" -> <<<<184, 165, 255>>, <<255, 165, 224>>, <<165, 200, 255>>, <<224, 165, 255>>>>
    [] s = "network_topology" -> <<<<255, 221, 92>>, <<92, 255, 138>>, <<255, 92, 92>>, <<92, 221, 255>>>>
    [] s = "pure_absence" -> <<<<255, 255, 255>>, <<204, 204, 204>>>>
    [] s = "spiral_dynamics" -> <<<<255, 107, 107>>, <<255, 217, 61>>, <<255, 159, 67>>, <<238, 90, 36>>>>
    [] OTHER -> <<>>

\* a _get_palette that ignores the supplied palette
GetPaletteDefault(palette, default) == default

\* _get_palette(default): "if self.palette: return self.palette" (None and the
\* empty list are both false)
GetPalette(palette, default) ==
  IF palette # None /\ Val(palette) # <<>> THEN Val(palette) ELSE default

\* the palette a generator keeps in its local variable (spectral_fragmentation
\* never asks for one)
LocalPalette(s, palette) ==
  IF s = "spectral_fragmentation" THEN <<>> ELSE GetPalette(palette, DefaultPalette(s))

\* a count that is rounded to the nearest integer
CountOfRounded(a, b, c10) == PyInt(10 * a + b * c10 + 5, 10)

\* a count that falls as complexity rises
CountOfFalling(a, b, c10) == PyInt(10 * a - b * c10, 10)

\* a count computed from the complexity clamped to [0, 1]
CountOfClamped(a, b, c10) ==
  PyInt(10 * a + b * (IF c10 < 0 THEN 0 ELSE IF c10 > 10 THEN 10 ELSE c10), 10)

\* int(a + self.complexity * b), complexity in tenths
CountOf(a, b, c10) == PyInt(10 * a + b * c10, 10)

\* the element count a generator computes from self.complexity (0 when it
\* computes none)
Count(s, c10) ==
  CASE s = "geometric_minimalist" -> CountOf(2, 4, c10)
    [] s = "organic_flow" -> CountOf(5, 8, c10)
    [] s = "void_exploration" -> CountOf(3, 5, c10)
    [] s = "spectral_fragmentation" -> CountOf(15, 20, c10)
    [] s = "symbolic_language" -> CountOf(8, 10, c10)
    [] s = "frequency_visualization" -> CountOf(8, 8, c10)
    [] s = "logical_structures" -> CountOf(4, 3, c10)
    [] s = "generative_growth" -> CountOf(2, 3, c10)
    [] s = "network_topology" -> CountOf(15, 20, c10)
    [] s = "spiral_dynamics" -> CountOf(2, 3, c10)
    [] OTHER -> 0

\* ------------------------------------------------------ drawing calls
Op(kind, color, width, geom) == <<kind, color, width, geom>>

OpColor(op) == op[2]

\* '#%02x%02x%02x' of a grey level with a blue tint
Tint(gray, plus) == <<gray, gray, gray + plus>>

\* colour + '40'
Suffix40(c) == c \o <<64>>

\* What one iteration of a generator loop does: the draw calls it issued, the
\* stream state it left, the data it keeps for later iterations, and whether it
\* raised.
Res(ops, rng, aux, raised) == [ops |-> ops, rng |-> rng, aux |-> aux, raised |-> raised]

\* --------------------------------------------------- the 15 generators
\* Each operator below is one iteration of a generator's top-level loop (an
\* inner loop or a recursion runs inside it): size is self.size, i the loop
\* index, n the count the generator computed, rng the stream state before the
\* iteration, pal the generator's local palette.

\* _geometric_minimalist: for _ in range(num_shapes)
GeometricShape(rng, pal) ==
  LET v1 == Advance(rng)
      v2 == Advance(v1)
      v3 == Advance(v2)
      v4 == Advance(v3)
      v5 == Advance(v4)
      v6 == Advance(v5)
      v7 == Advance(v6)
      shape_type == RandInt(0, 2, v1)
      color == Choice(pal, v5)
      width == IntAffine(2, 3, v6)
  IN  IF shape_type = 0
        THEN Res(<<Op("ellipse", color, width, <<v2, v3, v4>>)>>, v6, <<>>, FALSE)
      ELSE IF shape_type = 1
        THEN Res(<<Op("line", color, width, <<v2, v3, v4, v7>>)>>, v7, <<>>, FALSE)
      ELSE Res(<<Op("polygon", color, width, <<v2, v3, v4>>)>>, v6, <<>>, FALSE)

\* _organic_flow: for _ in range(num_flows); the 50-step walk draws once a step
OrganicFlow(rng, pal) ==
  LET v1 == Advance(rng)
      v2 == Advance(v1)
      v3 == Advance(v2)
      walk == [k \in 1..50 |-> AdvN(v3, k)]
      v54 == Advance(walk[50])
      v55 == Advance(v54)
      color == Choice(pal, v54)
      width == IntAffine(3, 8, v55)
  IN  Res(<<Op("line", color, width, <<v1, v2, v3>> \o walk)>>, v55, <<>>, FALSE)

\* _void_exploration: for r in range(self.size // 2, 0, -10)
VoidBackdrop(size, i) ==
  LET h == size \div 2
      r == h - 10 * i
      gray == PyInt(10 * h + 5 * r, h)
  IN  Op("ellipse_fill", Tint(gray, 5), 0, <<r>>)

\* _void_exploration: for _ in range(num_dots)
VoidDot(rng, pal) ==
  LET v1 == Advance(rng)
      v2 == Advance(v1)
      v3 == Advance(v2)
      v4 == Advance(v3)
      v5 == Advance(v4)
      edge == RandInt(0, 3, v1)
      color == Choice(pal, v5)
  IN  Res(<<Op("ellipse_fill", color, 0, <<edge, v2, v3, v4>>)>>, v5, <<>>, FALSE)

\* a hue conversion that scales all three channels by x_val
SpectralColorGrey(i, n) ==
  LET x == (180 * (n - Abs(((6 * i) % (2 * n)) - n))) \div n
  IN  <<x, x, x>>

\* _spectral_fragmentation: the fill colour of triangle i of num_triangles
\* (h = 6i/n, x_val = 1 - |h mod 2 - 1|, channels int(. * 180)). The middle
\* channel x is the exact value; the source's floating point can round it to
\* one less. The channels 180 and 0 are as in the source.
SpectralColor(i, n) ==
  LET sector == (6 * i) \div n
      x == (180 * (n - Abs(((6 * i) % (2 * n)) - n))) \div n
  IN  CASE sector < 1 -> <<180, x, 0>>
        [] sector = 1 -> <<x, 180, 0>>
        [] sector = 2 -> <<0, 180, x>>
        [] sector = 3 -> <<0, x, 180>>
        [] sector = 4 -> <<x, 0, 180>>
        [] OTHER -> <<180, 0, x>>

\* _spectral_fragmentation: for i in range(num_triangles)
SpectralTriangle(i, n, rng) ==
  LET v1 == Advance(rng)
      v2 == Advance(v1)
      v3 == Advance(v2)
      v4 == Advance(v3)
  IN  Res(<<Op("polygon_fill", SpectralColor(i, n), 0, <<v1, v2, v3, v4>>)>>, v4, <<>>, FALSE)

\* TLC computes an argument when it is first used. A recursion that threads the
\* stream state and the draw calls through thousands of calls asks for both at
\* every call, so that no chain of pending computations builds up. Always TRUE.
Ready(rng, ops) == rng >= 0 /\ Len(ops) >= 0

RECURSIVE DrawRecursive(_, _, _, _, _, _, _)
\* _recursive_patterns.draw_recursive; x, y and size in 1/2560 of a pixel
\* (size < 5 is sz < 12800). The result is <<stream state, draw calls so far>>.
DrawRecursive(x, y, sz, depth, rng, pal, ops) ==
  IF depth <= 0 \/ sz < 12800 \/ ~Ready(rng, ops) THEN <<rng, ops>>
  ELSE
    LET color == At(pal, depth % Len(pal))
        o1 == Append(ops, Op("rectangle", color, 1, <<x, y, sz>>))
        new_size == sz \div 2
        offset == sz \div 4
        v1 == Advance(rng)
        a == IF Gt(v1, 3, 10)
               THEN DrawRecursive(x - offset, y - offset, new_size, depth - 1, v1, pal, o1)
               ELSE <<v1, o1>>
        v2 == Advance(a[1])
        b == IF Gt(v2, 3, 10)
               THEN DrawRecursive(x + offset, y - offset, new_size, depth - 1, v2, pal, a[2])
               ELSE <<v2, a[2]>>
        v3 == Advance(b[1])
        c == IF Gt(v3, 3, 10)
               THEN DrawRecursive(x - offset, y + offset, new_size, depth - 1, v3, pal, b[2])
               ELSE <<v3, b[2]>>
        v4 == Advance(c[1])
    IN  IF Gt(v4, 3, 10)
          THEN DrawRecursive(x + offset, y + offset, new_size, depth - 1, v4, pal, c[2])
          ELSE <<v4, c[2]>>

\* a recursion that starts one level deeper
RecursivePatternsDeep(size, rng, pal) ==
  LET r == DrawRecursive(1280 * size, 1280 * size, 1792 * size, 7, rng, pal, <<>>)
  IN  Res(r[2], r[1], <<>>, FALSE)

\* _recursive_patterns: draw_recursive(self.size/2, self.size/2, self.size * 0.7, 6)
RecursivePatterns(size, rng, pal) ==
  LET r == DrawRecursive(1280 * size, 1280 * size, 1792 * size, 6, rng, pal, <<>>)
  IN  Res(r[2], r[1], <<>>, FALSE)

\* _dimensional_weaving: for i in range(grid_size + 1); palette[1] raises
\* IndexError once the horizontal line is drawn
WeavingGrid(i, pal) ==
  LET horizontal == Op("line", At(pal, 0), 1, <<0, i>>)
  IN  IF HasIndex(pal, 1)
        THEN <<<<horizontal, Op("line", At(pal, 1), 1, <<1, i>>)>>, FALSE>>
        ELSE <<<<horizontal>>, TRUE>>

\* _dimensional_weaving: for _ in range(5)
WeavingDiamond(rng, pal) ==
  LET v1 == Advance(rng)
      v2 == Advance(v1)
      v3 == Advance(v2)
  IN  Res(<<Op("polygon_fill", Suffix40(At(pal, 0)), 0, <<v1, v2, v3>>)>>, v3, <<>>, FALSE)

\* _symbolic_language: for _ in range(num_symbols)
SymbolicGlyph(rng, pal) ==
  LET v1 == Advance(rng)
      v2 == Advance(v1)
      v3 == Advance(v2)
      v4 == Advance(v3)
      v5 == Advance(v4)
      v6 == Advance(v5)
      v7 == Advance(v6)
      color == Choice(pal, v4)
      width == IntAffine(2, 2, v5)
      symbol_type == RandInt(0, 4, v6)
      g == <<v1, v2, v3>>
      \* int(size / 5) with size = 30 + random() * 50
      wave_points == IntAffine(6, 10, v3)
      num_points == 4 + RandInt(0, 3, v7)
      radii == [k \in 1..num_points |-> AdvN(v7, k)]
  IN  CASE symbol_type = 0 ->
             Res(<<Op("ellipse", color, width, g), Op("line", color, width, g)>>, v6, <<>>, FALSE)
        [] symbol_type = 1 ->
             Res(<<Op("line", color, width, <<0>> \o g), Op("line", color, width, <<1>> \o g),
                   Op("ellipse", color, width, g)>>, v6, <<>>, FALSE)
        [] symbol_type = 2 ->
             Res([k \in 1..3 |-> Op("line", color, width, <<k - 1>> \o g)], v6, <<>>, FALSE)
        [] symbol_type = 3 ->
             Res(IF wave_points > 1
                   THEN [k \in 1..3 |-> Op("line", color, width, <<k - 1, wave_points>> \o g)]
                   ELSE <<>>, v6, <<>>, FALSE)
        [] OTHER ->
             Res(<<Op("polygon", color, width, <<num_points>> \o g \o radii)>>,
                 radii[num_points], <<>>, FALSE)

\* _frequency_visualization: for w in range(num_waves)
FrequencyWave(size, w, n, rng, pal) ==
  LET v1 == Advance(rng)
      v2 == Advance(v1)
      v3 == Advance(v2)
      color == At(pal, w % Len(pal))
  IN  Res(IF LenUp(size, 2) > 1 THEN <<Op("line", color, 2, <<w, n, v1, v2, v3>>)>> ELSE <<>>,
          v3, <<>>, FALSE)

RECURSIVE LogicalRow(_, _, _, _, _, _)
\* _logical_structures: for j in range(divisions), row i. The result is
\* <<stream state, draw calls so far>>.
LogicalRow(i, j, divisions, rng, pal, ops) ==
  IF j >= divisions \/ ~Ready(rng, ops) THEN <<rng, ops>>
  ELSE
    LET v1 == Advance(rng)
        v2 == Advance(v1)
        color == At(pal, 0)
        pattern == RandInt(0, 3, v2)
        drawn == CASE pattern = 0 -> <<Op("line", color, 1, <<0, i, j>>)>>
                   [] pattern = 1 -> <<Op("line", color, 1, <<1, i, j>>)>>
                   [] pattern = 2 -> <<Op("line", color, 1, <<2, i, j>>),
                                       Op("line", color, 1, <<3, i, j>>)>>
                   [] OTHER -> <<Op("arc", color, 1, <<i, j>>)>>
    IN  IF Gt(v1, 5, 10)
          THEN LogicalRow(i, j + 1, divisions, v1, pal, ops)
          ELSE LogicalRow(i, j + 1, divisions, v2, pal, ops \o drawn)

\* _logical_structures: for i in range(divisions)
LogicalStructuresRow(i, n, rng, pal) ==
  LET r == LogicalRow(i, 0, n, rng, pal, <<>>)
  IN  Res(r[2], r[1], <<>>, FALSE)

RECURSIVE Grow(_, _, _, _, _, _), GrowBranches(_, _, _, _, _, _)
\* _generative_growth.grow; length in 1/100 of a pixel, rounded down at each
\* multiplication (length < 3 is len < 300). angle is the value drawn for the
\* branch. The result is <<stream state, draw calls so far>>.
Grow(angle, len, depth, rng, pal, ops) ==
  IF depth <= 0 \/ len < 300 \/ ~Ready(rng, ops) THEN <<rng, ops>>
  ELSE
    LET color == At(pal, depth % Len(pal))
        width == Max(1, PyInt(8 * depth, 10))
        o1 == Append(ops, Op("line", color, width, <<depth, angle, len>>))
        v1 == Advance(rng)
        num_branches == 2 + RandInt(0, 1, v1)
    IN  GrowBranches(num_branches, len, depth, v1, pal, o1)

\* the loop "for _ in range(num_branches)" of grow, k branches left
GrowBranches(k, len, depth, rng, pal, ops) ==
  IF k <= 0 \/ ~Ready(rng, ops) THEN <<rng, ops>>
  ELSE
    LET v1 == Advance(rng)
        v2 == Advance(v1)
        branch_length == (len * (60 * RngMod + 30 * v2)) \div (100 * RngMod)
        sub == Grow(v1, branch_length, depth - 1, v2, pal, ops)
    IN  GrowBranches(k - 1, len, depth, sub[1], pal, sub[2])

\* _generative_growth: for _ in range(num_seeds)
GrowthRoot(rng, pal) ==
  LET v1 == Advance(rng)
      v2 == Advance(v1)
      v3 == Advance(v2)
      r == Grow(v2, 8000 + (4000 * v3) \div RngMod, 8, v3, pal, <<>>)
      trunk == r[2][1]
  IN  Res(<<Op(trunk[1], trunk[2], trunk[3], trunk[4] \o <<v1>>)>> \o Tail(r[2]),
          r[1], <<>>, FALSE)

RECURSIVE EncodedRow(_, _, _, _, _, _)
\* _encoded_aesthetics: for x in range(0, self.size, 12), row y, column k. The
\* result is <<stream state, draw calls so far>>.
EncodedRow(y, k, columns, rng, pal, ops) ==
  IF k >= columns \/ ~Ready(rng, ops) THEN <<rng, ops>>
  ELSE
    LET v1 == Advance(rng)
        v2 == Advance(v1)
        color == At(pal, 0)
        digit == RandInt(0, 9, v2)
    IN  IF Gt(v1, 7, 10)
          THEN EncodedRow(y, k + 1, columns, v2, pal,
                          Append(ops, Op("text", color, 0, <<12 * k, y, digit>>)))
          ELSE EncodedRow(y, k + 1, columns, v1, pal, ops)

\* _encoded_aesthetics: for y in range(0, self.size, 18)
EncodedMatrixRow(size, i, rng, pal) ==
  LET r == EncodedRow(18 * i, 0, LenUp(size, 12), rng, pal, <<>>)
  IN  Res(r[2], r[1], <<>>, FALSE)

\* _encoded_aesthetics: for _ in range(5); palette[1] raises IndexError after
\* x, y and w are drawn from the stream
EncodedRectangle(rng, pal) ==
  LET v1 == Advance(rng)
      v2 == Advance(v1)
      v3 == Advance(v2)
  IN  IF HasIndex(pal, 1)
        THEN Res(<<Op("rectangle", At(pal, 1), 1, <<v1, v2, v3>>)>>, v3, <<>>, FALSE)
        ELSE Res(<<>>, v3, <<>>, TRUE)

\* _ambient_fields: for _ in range(5); one outlined circle per radius of
\* range(max_r, 0, -5). The colour is parsed from hex and formatted back.
AmbientField(rng, pal) ==
  LET v1 == Advance(rng)
      v2 == Advance(v1)
      v3 == Advance(v2)
      v4 == Advance(v3)
      max_r == IntAffine(200, 400, v3)
      color == Choice(pal, v4)
      fill_color == <<color[1], color[2], color[3]>>
  IN  Res([k \in 1..LenDown(max_r, 5) |->
             Op("ellipse", fill_color, 5, <<v1, v2, max_r - 5 * (k - 1)>>)],
          v4, <<>>, FALSE)

\* _network_topology: nodes.append({...}); a node is <<x, y, size>> as drawn
NetworkNode(rng, nodes) ==
  LET v1 == Advance(rng)
      v2 == Advance(v1)
      v3 == Advance(v2)
  IN  Res(<<>>, v3, Append(nodes, <<v1, v2, v3>>), FALSE)

\* a distance test that lets every pair through
NearAny(size, node1, node2) == TRUE

\* math.hypot(node1.x - node2.x, node1.y - node2.y) < 200, where a coordinate
\* is self.size * (0.1 + v / RngMod * 0.8)
Near(size, node1, node2) ==
  LET dx == node1[1] - node2[1]
      dy == node1[2] - node2[2]
  IN  size * size * (dx * dx + dy * dy) < 62500 * RngMod * RngMod

RECURSIVE NetworkRow(_, _, _, _, _, _, _)
\* _network_topology: for j, node2 in enumerate(nodes), for node i. The stream
\* is drawn from only when the two nodes are near. The result is
\* <<stream state, draw calls so far>>.
NetworkRow(size, i, j, nodes, rng, pal, ops) ==
  IF j >= Len(nodes) \/ ~Ready(rng, ops) THEN <<rng, ops>>
  ELSE IF i >= j THEN NetworkRow(size, i, j + 1, nodes, rng, pal, ops)
  ELSE IF ~Near(size, At(nodes, i), At(nodes, j))
    THEN NetworkRow(size, i, j + 1, nodes, rng, pal, ops)
  ELSE
    LET v1 == Advance(rng)
    IN  IF Gt(v1, 3, 10)
          THEN NetworkRow(size, i, j + 1, nodes, v1, pal,
                          Append(ops, Op("line", At(pal, 0), 1, <<i, j>>)))
          ELSE NetworkRow(size, i, j + 1, nodes, v1, pal, ops)

\* _network_topology: for i, node1 in enumerate(nodes)
NetworkConnections(size, i, nodes, rng, pal) ==
  LET r == NetworkRow(size, i, 0, nodes, rng, pal, <<>>)
  IN  Res(r[2], r[1], nodes, FALSE)

\* _network_topology: for node in nodes; palette[1] raises IndexError
NetworkDrawNode(i, nodes, rng, pal) ==
  IF HasIndex(pal, 1)
    THEN Res(<<Op("ellipse_fill", At(pal, 1), 0, At(nodes, i))>>, rng, nodes, FALSE)
    ELSE Res(<<>>, rng, nodes, TRUE)

\* _pure_absence: for r in range(self.size // 2, 0, -20)
AbsenceBackdrop(size, i) ==
  LET h == size \div 2
      r == h - 20 * i
      gray == PyInt(10 * h + 3 * r, h)
  IN  Op("ellipse_fill", Tint(gray, 2), 0, <<r>>)

\* _pure_absence: if random.random() > 0.5
AbsenceDot(rng, pal) ==
  LET v1 == Advance(rng)
      v2 == Advance(v1)
      v3 == Advance(v2)
      v4 == Advance(v3)
  IN  IF Gt(v1, 5, 10)
        THEN Res(<<Op("ellipse_fill", At(pal, 0), 0, <<v2, v3, v4>>)>>, v4, <<>>, FALSE)
        ELSE Res(<<>>, v1, <<>>, FALSE)

\* for i in range(500)
SpiralSamples == 500

\* _spiral_dynamics: for s in range(num_spirals); 500 points, so the line is
\* always drawn. The line is given by its arm s of n, its direction and the
\* number of its points.
SpiralArm(s, n, rng, pal) ==
  LET v1 == Advance(rng)
      v2 == Advance(v1)
      direction == IF Gt(v1, 5, 10) THEN 1 ELSE -1
      color == At(pal, s % Len(pal))
      width == IntAffine(2, 3, v2)
  IN  Res(<<Op("line", color, width, <<s, n, direction, SpiralSamples>>)>>, v2, <<>>, FALSE)

\* The loops a generator runs one after the other, as the number of
\* iterations of each.
Loops(style, size, n) ==
  CASE style = "void_exploration" -> <<LenDown(size \div 2, 10), Max(n, 0)>>
    [] style = "recursive_patterns" -> <<1>>
    [] style = "dimensional_weaving" -> <<13, 5>>
    [] style = "encoded_aesthetics" -> <<LenUp(size, 18), 5>>
    [] style = "ambient_fields" -> <<5>>
    [] style = "network_topology" -> <<Max(n, 0), Max(n, 0), Max(n, 0)>>
    [] style = "pure_absence" -> <<LenDown(size \div 2, 20), 1>>
    [] OTHER -> <<Max(n, 0)>>

\* Iteration i of loop ph of a generator.
Iteration(style, size, ph, i, n, aux, rng, pal) ==
  CASE style = "geometric_minimalist" -> GeometricShape(rng, pal)
    [] style = "organic_flow" -> OrganicFlow(rng, pal)
    [] style = "void_exploration" ->
         IF ph = 1 THEN Res(<<VoidBackdrop(size, i)>>, rng, <<>>, FALSE)
                   ELSE VoidDot(rng, pal)
    [] style = "spectral_fragmentation" -> SpectralTriangle(i, n, rng)
    [] style = "recursive_patterns" -> RecursivePatterns(size, rng, pal)
    [] style = "dimensional_weaving" ->
         IF ph = 1 THEN Res(WeavingGrid(i, pal)[1], rng, <<>>, WeavingGrid(i, pal)[2])
                   ELSE WeavingDiamond(rng, pal)
    [] style = "symbolic_language" -> SymbolicGlyph(rng, pal)
    [] style = "frequency_visualization" -> FrequencyWave(size, i, n, rng, pal)
    [] style = "logical_structures" -> LogicalStructuresRow(i, n, rng, pal)
    [] style = "generative_growth" -> GrowthRoot(rng, pal)
    [] style = "encoded_aesthetics" ->
         IF ph = 1 THEN EncodedMatrixRow(size, i, rng, pal)
                   ELSE EncodedRectangle(rng, pal)
    [] style = "ambient_fields" -> AmbientField(rng, pal)
    [] style = "network_topology" ->
         IF ph = 1 THEN NetworkNode(rng, aux)
         ELSE IF ph = 2 THEN NetworkConnections(size, i, aux, rng, pal)
         ELSE NetworkDrawNode(i, aux, rng, pal)
    [] style = "pure_absence" ->
         IF ph = 1 THEN Res(<<AbsenceBackdrop(size, i)>>, rng, <<>>, FALSE)
                   ELSE AbsenceDot(rng, pal)
    [] OTHER -> SpiralArm(i, n, rng, pal)

\* ZeroDivisionError in a generator before its first loop:
\* cell_size = self.size / divisions (_logical_structures)
PrologueRaises(style, n) == style = "logical_structures" /\ n = 0

\* Whether iteration i of loop ph draws from the random stream at all.
DrawsFromStream(style, size, ph, i, aux) ==
  CASE style = "void_exploration" -> ph = 2
    [] style = "recursive_patterns" -> 1792 * size >= 12800
    [] style = "dimensional_weaving" -> ph = 2
    [] style = "encoded_aesthetics" -> ph = 2 \/ LenUp(size, 12) > 0
    [] style = "network_topology" ->
         \/ ph = 1
         \/ ph = 2 /\ \E j \in (i + 1)..(Len(aux) - 1) : Near(size, At(aux, i), At(aux, j))
    [] style = "pure_absence" -> ph = 2
    [] OTHER -> TRUE

\* ------------------------------------------------------------ the state
Threads == {"t1", "t2"}

VARIABLES
  rng,      \* the state of the random module's one process-wide stream
  self,     \* the attributes of the ArtEngine instance (api.py: art_engine)
  pc,       \* pc[t]: where thread t is in generate
  args,     \* args[t]: the arguments of t's call of generate
  loc,      \* loc[t]: the local variables of t's call
  out,      \* out[t]: what t's call returned
  mon       \* mon[t]: what t's call has done so far (history, not program state)

engineVars == <<rng, self, pc, args, loc, out, mon>>

VARIABLES
  agents,       \* the agents table, in insertion order; a row's api_key is its place
  posts,        \* the posts table, in insertion order
  comments,     \* the comments table, in insertion order
  likes,        \* the likes table, in insertion order
  rate_limits,  \* the rate_limits table: api_key -> row, for the keys that have one
  now,          \* time.time(), in seconds
  apc,          \* apc[t]: where request thread t is in its handler
  req,          \* req[t]: the request t is serving
  resp          \* resp[t]: the last response t sent

apiVars == <<agents, posts, comments, likes, rate_limits, now, apc, req, resp>>

\* -------------------------------------------------------------- objects
\* a canvas that is not square
NewImageWide(size) == <<size + size, size, <<>>>>

\* Image.new('RGB', (size, size), '#0a0a0f')
NewImage(size) == <<size, size, <<>>>>

ImgOps(img) == img[3]

\* obj.attr = v
SetAttr(obj, attr, v) ==
  [a \in DOMAIN obj \cup {attr} |-> IF a = attr THEN v ELSE obj[a]]

\* self.draw is bound to one image object: the one self.img refers to (Same),
\* or another one, which then lives on in self.draw alone.
Same == <<>>

\* self.img = Image.new(...): the object self.draw is bound to stays what it was
RebindImg(obj, img) ==
  LET kept == IF "draw" \in DOMAIN obj /\ obj.draw = Same
                THEN SetAttr(obj, "draw", <<obj.img>>)
                ELSE obj
  IN  SetAttr(kept, "img", img)

\* self.draw.<call>(...) for each of ops: they land on the image self.draw is
\* bound to
DrawOn(obj, ops) ==
  IF obj.draw = Same
    THEN [obj EXCEPT !.img = <<@[1], @[2], @[3] \o ops>>]
    ELSE [obj EXCEPT !.draw = << <<@[1][1], @[1][2], @[1][3] \o ops>> >>]

\* self.img.save(buffer, format='PNG'); base64.b64encode(...): lossless, so the
\* string stands for the image it encodes
Encoded(img) == img

\* ------------------------------------------------------------ the inputs
Seeds == {None} \cup {Some(k) : k \in 1..MaxSeed}

UnknownStyles == {"vaporwave"}

Styles == StyleKeys \cup UnknownStyles

\* palettes a caller supplies: '#101010' alone, and '#202020' with '#303030'
PaletteOne == << <<16, 16, 16>> >>

PaletteTwo == << <<32, 32, 32>>, <<48, 48, 48>> >>

\* the params argument: None, or a dict
ParamSets ==
  { None,
    Some([complexity |-> 10, palette |-> Some(PaletteOne)]),
    Some([complexity |-> 0, palette |-> Some(PaletteTwo)]) }

NoArgs == [style |-> "", seed |-> None, params |-> None]

NoLocals == [generator |-> "", palette |-> <<>>, n |-> 0, ph |-> 1, i |-> 0, aux |-> <<>>]

NoHistory ==
  [drawn |-> <<>>, seedings |-> 0, start |-> 0, shadow |-> 0, alone |-> TRUE,
   reused |-> FALSE, iters |-> <<>>]

InCall(t) == pc[t] \notin {"idle", "done", "raised"}

\* After ArtEngine(): __init__ sets self.size and nothing else.
EngineInit ==
  /\ rng = 0
  /\ self = [size |-> Size]
  /\ pc = [t \in Threads |-> "idle"]
  /\ args = [t \in Threads |-> NoArgs]
  /\ loc = [t \in Threads |-> NoLocals]
  /\ out = [t \in Threads |-> None]
  /\ mon = [t \in Threads |-> NoHistory]

\* ------------------------------------------------- ArtEngine.generate
\* params = params or {}
OrEmpty(params) == IF params = None THEN <<>> ELSE Val(params)

RECURSIVE Skip(_, _)
\* the first loop from ph on that has an iteration to run
Skip(loops, ph) ==
  IF ph > Len(loops) \/ loops[ph] > 0 THEN ph ELSE Skip(loops, ph + 1)

\* where the generator stands after iteration i of loop ph
After(loops, ph, i) ==
  IF i + 1 < loops[ph] THEN <<ph, i + 1>> ELSE <<Skip(loops, ph + 1), 0>>

\* a generate that never applies the seed
SeededNever(seed, stream) == stream

\* "if seed is not None: random.seed(seed)"
Seeded(seed, stream) == IF seed # None THEN SeedState(Val(seed)) ELSE stream

\* iters[ph] is the number of iterations of loop ph run so far: one more of
\* loop ph
Counted(iters, ph) ==
  [k \in 1..Max(Len(iters), ph) |->
     (IF k <= Len(iters) THEN iters[k] ELSE 0) + (IF k = ph THEN 1 ELSE 0)]

\* What is recorded when t enters generate. When the random module is seeded,
\* every call in progress has its stream reset.
NoteSeeding(m, t, seed, stream) ==
  [u \in Threads |->
     IF u = t
       THEN [drawn |-> <<>>, seedings |-> IF seed # None THEN 1 ELSE 0,
             start |-> stream, shadow |-> stream, alone |-> TRUE,
             reused |-> "img" \in DOMAIN self, iters |-> <<>>]
     ELSE IF InCall(u) /\ seed # None
       THEN [m[u] EXCEPT !.seedings = @ + 1]
     ELSE m[u]]

\* generate is entered: the seed is applied and the parameters are stored on
\* the instance
Generate(t, style, seed, params) ==
  /\ pc[t] = "idle"
  /\ rng' = Seeded(seed, rng)
  /\ self' = SetAttr(SetAttr(self, "complexity", Get(OrEmpty(params), "complexity", 7)),
                     "palette", Get(OrEmpty(params), "palette", None))
  /\ args' = [args EXCEPT ![t] = [style |-> style, seed |-> seed, params |-> params]]
  /\ loc' = [loc EXCEPT ![t] = NoLocals]
  /\ out' = [out EXCEPT ![t] = None]
  /\ mon' = NoteSeeding(mon, t, seed, rng')
  /\ pc' = [pc EXCEPT ![t] = "image"]

\* self.img = Image.new(...); self.draw = ImageDraw.Draw(self.img)
CreateImage(t) ==
  /\ pc[t] = "image"
  /\ self' = SetAttr(RebindImg(self, NewImage(self.size)), "draw", Same)
  /\ pc' = [pc EXCEPT ![t] = "dispatch"]
  /\ UNCHANGED <<rng, args, loc, out, mon>>

\* generator = style_map.get(...); generator() runs up to its first loop: it
\* takes its palette and computes its count (_void_exploration computes its
\* count after its first loop, from a self.complexity that no step of the same
\* call writes in between)
Dispatch(t) ==
  /\ pc[t] = "dispatch"
  /\ LET generator == StyleMap(args[t].style)
         n == Count(generator, self.complexity)
         loops == Loops(generator, self.size, n)
         ph == Skip(loops, 1)
     IN  /\ loc' = [loc EXCEPT ![t] =
                      [generator |-> generator,
                       palette |-> LocalPalette(generator, self.palette),
                       n |-> n, ph |-> ph, i |-> 0, aux |-> <<>>]]
         /\ pc' = [pc EXCEPT ![t] =
                      IF PrologueRaises(generator, n) THEN "raised"
                      ELSE IF ph > Len(loops) THEN "encode"
                      ELSE "loop"]
  /\ UNCHANGED <<rng, self, args, out, mon>>

\* one iteration of the generator's current loop
Step(t) ==
  /\ pc[t] = "loop"
  /\ LET l == loc[t]
         loops == Loops(l.generator, self.size, l.n)
         r == Iteration(l.generator, self.size, l.ph, l.i, l.n, l.aux, rng, l.palette)
         m == mon[t]
         draws == DrawsFromStream(l.generator, self.size, l.ph, l.i, l.aux)
         shadow == IF m.shadow = rng THEN r.rng
                   ELSE Iteration(l.generator, self.size, l.ph, l.i, l.n, l.aux,
                                  m.shadow, l.palette).rng
         next == After(loops, l.ph, l.i)
     IN  /\ rng' = r.rng
         /\ self' = DrawOn(self, r.ops)
         /\ mon' = [mon EXCEPT ![t] =
                      [drawn |-> m.drawn \o r.ops, seedings |-> m.seedings,
                       start |-> m.start, shadow |-> shadow,
                       alone |-> m.alone /\ (draws => m.shadow = rng),
                       reused |-> m.reused, iters |-> Counted(m.iters, l.ph)]]
         /\ IF r.raised
              THEN /\ pc' = [pc EXCEPT ![t] = "raised"]
                   /\ loc' = loc
              ELSE /\ pc' = [pc EXCEPT ![t] = IF next[1] > Len(loops) THEN "encode" ELSE "loop"]
                   /\ loc' = [loc EXCEPT ![t].ph = next[1], ![t].i = next[2], ![t].aux = r.aux]
  /\ UNCHANGED <<args, out>>

\* buffer = BytesIO(); self.img.save(buffer, format='PNG'); return base64...
Encode(t) ==
  /\ pc[t] = "encode"
  /\ out' = [out EXCEPT ![t] = Some(Encoded(self.img))]
  /\ pc' = [pc EXCEPT ![t] = "done"]
  /\ UNCHANGED <<rng, self, args, loc, mon>>

\* the caller has the result, or the exception, and may call again
Return(t) ==
  /\ pc[t] \in {"done", "raised"}
  /\ pc' = [pc EXCEPT ![t] = "idle"]
  /\ args' = [args EXCEPT ![t] = NoArgs]
  /\ loc' = [loc EXCEPT ![t] = NoLocals]
  /\ out' = [out EXCEPT ![t] = None]
  /\ mon' = [mon EXCEPT ![t] = NoHistory]
  /\ UNCHANGED <<rng, self>>

\* ------------------------------------------- generate, run on its own
RECURSIVE RunLoops(_, _, _, _, _, _, _, _, _, _)
\* the generator's loops from iteration i of loop ph on, on a canvas no other
\* call touches; the result is what Res describes, for the whole run
RunLoops(generator, size, n, pal, loops, ph, i, aux, stream, ops) ==
  IF ph > Len(loops) \/ ~Ready(stream, ops) THEN Res(ops, stream, aux, FALSE)
  ELSE
    LET r == Iteration(generator, size, ph, i, n, aux, stream, pal)
        next == After(loops, ph, i)
    IN  IF r.raised THEN Res(ops \o r.ops, r.rng, r.aux, TRUE)
        ELSE RunLoops(generator, size, n, pal, loops, next[1], next[2], r.aux,
                      r.rng, ops \o r.ops)

\* generate(style, seed, params) on a fresh engine of the given size whose
\* stream is in state stream after the seed is applied: the image, and whether
\* the call raised instead of returning it
RenderFrom(style, stream, params, size) ==
  LET generator == StyleMap(style)
      n == Count(generator, Get(OrEmpty(params), "complexity", 7))
      pal == LocalPalette(generator, Get(OrEmpty(params), "palette", None))
      loops == Loops(generator, size, n)
      r == IF PrologueRaises(generator, n) THEN Res(<<>>, stream, <<>>, TRUE)
           ELSE RunLoops(generator, size, n, pal, loops, Skip(loops, 1), 0, <<>>,
                         stream, <<>>)
  IN  [img |-> <<size, size, r.ops>>, raised |-> r.raised]

vars == <<engineVars, apiVars>>

NoRequest == [kind |-> "", key |-> None, data |-> [none |-> 0]]

NoResponse == [status |-> 0, code |-> "", to |-> ""]

\* After the module is loaded: init_db() has created empty tables.
ApiInit ==
  /\ agents = <<>>
  /\ posts = <<>>
  /\ comments = <<>>
  /\ likes = <<>>
  /\ rate_limits = <<>>
  /\ now = 2 * POST_COOLDOWN
  /\ apc = [t \in Threads |-> "idle"]
  /\ req = [t \in Threads |-> NoRequest]
  /\ resp = [t \in Threads |-> NoResponse]

Init == EngineInit /\ ApiInit

\* One caller, one call after another.
Caller == "t1"

Next ==
  \/ \E style \in Styles, seed \in Seeds, params \in ParamSets :
       Generate(Caller, style, seed, params) /\ UNCHANGED apiVars
  \/ CreateImage(Caller) /\ UNCHANGED apiVars
  \/ Dispatch(Caller) /\ UNCHANGED apiVars
  \/ Step(Caller) /\ UNCHANGED apiVars
  \/ Encode(Caller) /\ UNCHANGED apiVars
  \/ Return(Caller) /\ UNCHANGED apiVars

Spec == Init /\ [][Next]_vars

\* Two request threads of the API server, each in one call of generate on the
\* module-level engine, their steps interleaved.
\* create_artwork always passes a seed: the request's, or one from the clock.
ConcStyles == {"geometric_minimalist", "spiral_dynamics"}

ConcSeeds == {Some(k) : k \in 1..MaxSeed}

ConcParams ==
  { Some([complexity |-> 0, palette |-> Some(PaletteOne)]),
    Some([complexity |-> 0, palette |-> Some(PaletteTwo)]) }

NextConc ==
  \E t \in Threads :
    \/ \E style \in ConcStyles, seed \in ConcSeeds, params \in ConcParams :
         Generate(t, style, seed, params) /\ UNCHANGED apiVars
    \/ CreateImage(t) /\ UNCHANGED apiVars
    \/ Dispatch(t) /\ UNCHANGED apiVars
    \/ Step(t) /\ UNCHANGED apiVars
    \/ Encode(t) /\ UNCHANGED apiVars

SpecConc == Init /\ [][NextConc]_vars

\* One call on a fresh engine, for every style and every complexity from 0.0
\* to 1.0 in steps of 0.1, with the generator's own palette.
SweepComplexities == 0..10

NextSweep ==
  \/ \E style \in StyleKeys, k \in 1..MaxSeed, c10 \in SweepComplexities :
       /\ "img" \notin DOMAIN self
       /\ Generate(Caller, style, Some(k), Some([complexity |-> c10]))
       /\ UNCHANGED apiVars
  \/ CreateImage(Caller) /\ UNCHANGED apiVars
  \/ Dispatch(Caller) /\ UNCHANGED apiVars
  \/ Step(Caller) /\ UNCHANGED apiVars
  \/ Encode(Caller) /\ UNCHANGED apiVars

SpecSweep == Init /\ [][NextSweep]_vars

\* One call on a fresh engine, for every style and complexities outside
\* [0, 1]: -2.0, -1.5, -0.5, 1.2 and 2.5, with the generator's own palette.
RangeComplexities == {-20, -15, -5, 12, 25}

NextRange ==
  \/ \E style \in StyleKeys, k \in 1..MaxSeed, c10 \in RangeComplexities :
       /\ "img" \notin DOMAIN self
       /\ Generate(Caller, style, Some(k), Some([complexity |-> c10]))
       /\ UNCHANGED apiVars
  \/ CreateImage(Caller) /\ UNCHANGED apiVars
  \/ Dispatch(Caller) /\ UNCHANGED apiVars
  \/ Step(Caller) /\ UNCHANGED apiVars
  \/ Encode(Caller) /\ UNCHANGED apiVars

SpecRange == Init /\ [][NextRange]_vars

\* ------------------------------------------------------------ the API
MaxAgents == 2

MaxPosts == 1

MaxArtworks == 2

MaxTicks == 2

Names == {"Ada", "ada", "Bo"}

\* LOWER(name)
Lower(name) == IF name = "Ada" THEN "ada" ELSE name

\* the request bodies: one without a style, an invalid style, a valid one, and
\* one whose generator raises
ApiBodies ==
  { [title |-> "untitled"],
    [style |-> "vaporwave"],
    [style |-> "spiral_dynamics"],
    [style |-> "dimensional_weaving",
     parameters |-> [seed |-> 1, palette |-> Some(PaletteOne)]] }

\* the X-API-Key header: absent, or a key (one more than can exist)
ApiKeys == {None} \cup {Some(k) : k \in 1..(MaxAgents + 1)}

\* a handler without the style check
ValidStyleAny(style) == TRUE

\* "style not in VALID_STYLES", negated
ValidStyle(style) == style \in Range(VALID_STYLES)

\* int(time.time() * 1000) % 1000000
ClockSeed(time) == (time * 1000) % 1000000

\* limits['last_post'] or 0, for the row check_rate_limit would read
LastPost(limits, key) == IF key \in DOMAIN limits THEN limits[key].last_post ELSE 0

\* check_rate_limit(api_key, action): <<the rate_limits table it leaves, allowed>>
CheckRateLimit(limits, key, time, action) ==
  LET withRow == IF key \in DOMAIN limits THEN limits
                 ELSE SetAttr(limits, key,
                              [last_post |-> 0, comment_count |-> 0, comment_reset |-> time])
      row == withRow[key]
      hourOver == time - row.comment_reset > 3600
      reset == IF hourOver
                 THEN [withRow EXCEPT ![key].comment_count = 0, ![key].comment_reset = time]
                 ELSE withRow
  IN  IF action = "post" THEN <<withRow, ~(time - row.last_post < POST_COOLDOWN)>>
      ELSE IF action = "comment" THEN <<reset, ~(reset[key].comment_count >= COMMENTS_PER_HOUR)>>
      ELSE <<withRow, TRUE>>

\* return jsonify(...), status: the handler is over
Respond(t, status, code) ==
  /\ resp' = [resp EXCEPT ![t] = [status |-> status, code |-> code, to |-> req[t].kind]]
  /\ req' = [req EXCEPT ![t] = NoRequest]
  /\ apc' = [apc EXCEPT ![t] = "idle"]

\* register_agent
RegisterAgent(name) ==
  /\ Len(agents) < MaxAgents
  /\ \A k \in 1..Len(agents) : Lower(agents[k].name) # Lower(name)
  /\ agents' = Append(agents, [name |-> name, artworks_count |-> 0, posts_count |-> 0,
                              comments_count |-> 0,
                              likes_given |-> 0, likes_received |-> 0])
  /\ UNCHANGED <<engineVars, posts, comments, likes, rate_limits, now, apc, req, resp>>

\* register_agent, the name taken: 409 and nothing written
RegisterTaken(name) ==
  /\ \E k \in 1..Len(agents) : Lower(agents[k].name) = Lower(name)
  /\ UNCHANGED vars

RECURSIVE Artworks(_, _)
\* the sum of artworks_count over the first k agents
Artworks(rows, k) ==
  IF k = 0 THEN 0 ELSE rows[k].artworks_count + Artworks(rows, k - 1)

\* a request reaches request thread t; one that can create an artwork or a
\* post only while the tables have room for it
Receive(t, kind, key, data) ==
  /\ apc[t] = "idle" /\ pc[t] = "idle"
  /\ ("style" \in DOMAIN data /\ ValidStyle(data.style)) =>
        /\ Artworks(agents, Len(agents)) < MaxArtworks
        /\ kind = "post" => Len(posts) < MaxPosts
  /\ req' = [req EXCEPT ![t] = [kind |-> kind, key |-> key, data |-> data]]
  /\ resp' = [resp EXCEPT ![t] = NoResponse]
  /\ apc' = [apc EXCEPT ![t] = "received"]
  /\ UNCHANGED <<engineVars, agents, posts, comments, likes, rate_limits, now>>

\* require_api_key; None when the handler may run, else the code of the 401
AuthError(key) ==
  IF key = None THEN Some("AUTH_MISSING")
  ELSE IF Val(key) \notin 1..Len(agents) THEN Some("AUTH_INVALID")
  ELSE None

\* the handler's call art_engine.generate(style, seed, params), entered
CallEngine(t, data) ==
  LET params == Get(data, "parameters", <<>>)
      seed == Get(params, "seed", ClockSeed(now))
  IN  Generate(t, data.style, Some(seed), Some(params))

\* create_artwork, up to its call of generate
CreateArtwork(t) ==
  /\ apc[t] = "received" /\ req[t].kind = "artwork"
  /\ LET data == req[t].data
     IN  IF AuthError(req[t].key) # None
           THEN Respond(t, 401, Val(AuthError(req[t].key))) /\ UNCHANGED engineVars
         ELSE IF "style" \notin DOMAIN data
           THEN Respond(t, 400, "VALIDATION_ERROR") /\ UNCHANGED engineVars
         ELSE IF ~ValidStyle(data.style)
           THEN Respond(t, 400, "INVALID_STYLE") /\ UNCHANGED engineVars
         ELSE /\ CallEngine(t, data)
              /\ apc' = [apc EXCEPT ![t] = "artwork"]
              /\ UNCHANGED <<resp, req>>
  /\ UNCHANGED <<agents, posts, comments, likes, rate_limits, now>>

\* a create_artwork that answers without the UPDATE
FinishArtworkUncounted(t) ==
  /\ apc[t] = "artwork" /\ pc[t] = "done"
  /\ Respond(t, 201, "CREATED")
  /\ Return(t)
  /\ UNCHANGED <<agents, posts, comments, likes, rate_limits, now>>

\* create_artwork, after generate returned
FinishArtwork(t) ==
  /\ apc[t] = "artwork" /\ pc[t] = "done"
  /\ agents' = [agents EXCEPT ![Val(req[t].key)].artworks_count = @ + 1]
  /\ Respond(t, 201, "CREATED")
  /\ Return(t)
  /\ UNCHANGED <<posts, comments, likes, rate_limits, now>>

\* create_post, up to its call of generate
CreatePost(t) ==
  /\ apc[t] = "received" /\ req[t].kind = "post"
  /\ LET data == req[t].data
         chk == CheckRateLimit(rate_limits, Val(req[t].key), now, "post")
     IN  IF AuthError(req[t].key) # None
           THEN /\ Respond(t, 401, Val(AuthError(req[t].key)))
                /\ UNCHANGED <<engineVars, rate_limits>>
         ELSE /\ rate_limits' = chk[1]
              /\ IF ~chk[2]
                   THEN Respond(t, 429, "RATE_LIMITED") /\ UNCHANGED engineVars
                 ELSE IF "style" \notin DOMAIN data
                   THEN Respond(t, 400, "VALIDATION_ERROR") /\ UNCHANGED engineVars
                 ELSE IF ~ValidStyle(data.style)
                   THEN Respond(t, 400, "INVALID_STYLE") /\ UNCHANGED engineVars
                 ELSE /\ CallEngine(t, data)
                      /\ apc' = [apc EXCEPT ![t] = "post"]
                      /\ UNCHANGED <<resp, req>>
  /\ UNCHANGED <<agents, posts, comments, likes, now>>

\* create_post, after generate returned: the insert and the two updates
FinishPost(t) ==
  /\ apc[t] = "post" /\ pc[t] = "done"
  /\ LET key == Val(req[t].key)
     IN  /\ posts' = Append(posts, [agent |-> key, style |-> args[t].style,
                                    seed |-> Val(args[t].seed), image_data |-> Val(out[t]),
                                    created_at |-> now])
         /\ rate_limits' = [rate_limits EXCEPT ![key].last_post = now]
         /\ agents' = [agents EXCEPT ![key].posts_count = @ + 1,
                                     ![key].artworks_count = @ + 1]
  /\ Respond(t, 201, "CREATED")
  /\ Return(t)
  /\ UNCHANGED <<now, comments, likes>>

\* generate raised: the exception leaves the handler, Flask answers 500
EngineError(t) ==
  /\ apc[t] \in {"artwork", "post"} /\ pc[t] = "raised"
  /\ Respond(t, 500, "INTERNAL")
  /\ Return(t)
  /\ UNCHANGED <<agents, posts, comments, likes, rate_limits, now>>

\* time passes
Tick ==
  /\ now < 2 * POST_COOLDOWN + MaxTicks * (POST_COOLDOWN \div 2)
  /\ now' = now + POST_COOLDOWN \div 2
  /\ UNCHANGED <<engineVars, agents, posts, comments, likes, rate_limits, apc, req, resp>>

\* One request thread serves one request after another.
NextApi ==
  \/ \E name \in Names : RegisterAgent(name)
  \/ \E name \in Names : RegisterTaken(name)
  \/ \E kind \in {"artwork", "post"}, key \in ApiKeys, data \in ApiBodies :
       Receive(Caller, kind, key, data)
  \/ CreateArtwork(Caller)
  \/ CreatePost(Caller)
  \/ CreateImage(Caller) /\ UNCHANGED apiVars
  \/ Dispatch(Caller) /\ UNCHANGED apiVars
  \/ Step(Caller) /\ UNCHANGED apiVars
  \/ Encode(Caller) /\ UNCHANGED apiVars
  \/ FinishArtwork(Caller)
  \/ FinishPost(Caller)
  \/ EngineError(Caller)
  \/ Tick

SpecApi == Init /\ [][NextApi]_vars

\* Two request threads serve create_post requests at the same time (app.run
\* serves each request in a thread of its own).
PostBodies ==
  { [style |-> "vaporwave"],
    [style |-> "geometric_minimalist", parameters |-> [complexity |-> 0]] }

\* one agent posts
PostNames == {"Ada"}

PostKeys == {Some(1)}

NextPosts ==
  \/ \E name \in PostNames : RegisterAgent(name)
  \/ \E t \in Threads, key \in PostKeys, data \in PostBodies :
       Receive(t, "post", key, data)
  \/ \E t \in Threads : CreatePost(t)
  \/ \E t \in Threads : CreateImage(t) /\ UNCHANGED apiVars
  \/ \E t \in Threads : Dispatch(t) /\ UNCHANGED apiVars
  \/ \E t \in Threads : Step(t) /\ UNCHANGED apiVars
  \/ \E t \in Threads : Encode(t) /\ UNCHANGED apiVars
  \/ \E t \in Threads : FinishPost(t)
  \/ Tick

SpecPosts == Init /\ [][NextPosts]_vars

\* str.strip(), for the texts and names the requests carry
Strip(text) ==
  IF text = " " THEN "" ELSE IF text = " Ada" THEN "Ada" ELSE text

\* add_comment, up to the end of its validation: check_rate_limit has
\* committed its transaction
AddComment(t) ==
  /\ apc[t] = "received" /\ req[t].kind = "comment"
  /\ LET data == req[t].data
         chk == CheckRateLimit(rate_limits, Val(req[t].key), now, "comment")
     IN  IF AuthError(req[t].key) # None
           THEN /\ Respond(t, 401, Val(AuthError(req[t].key)))
                /\ UNCHANGED rate_limits
         ELSE /\ rate_limits' = chk[1]
              /\ IF ~chk[2]
                   THEN Respond(t, 429, "RATE_LIMITED")
                 ELSE IF "text" \notin DOMAIN data \/ Strip(data.text) = ""
                   THEN Respond(t, 400, "VALIDATION_ERROR")
                 ELSE /\ apc' = [apc EXCEPT ![t] = "comment"]
                      /\ UNCHANGED <<resp, req>>
  /\ UNCHANGED <<engineVars, agents, posts, comments, likes, now>>

\* add_comment, its second transaction: the post looked up, the comment
\* inserted and the two counters incremented
FinishComment(t) ==
  /\ apc[t] = "comment"
  /\ LET key == Val(req[t].key)
         data == req[t].data
     IN  IF data.post_id \notin 1..Len(posts)
           THEN /\ Respond(t, 404, "NOT_FOUND")
                /\ UNCHANGED <<agents, comments, rate_limits>>
         ELSE /\ comments' = Append(comments, [post_id |-> data.post_id, agent_id |-> key,
                                               text |-> Strip(data.text),
                                               created_at |-> now])
              /\ rate_limits' = [rate_limits EXCEPT ![key].comment_count = @ + 1]
              /\ agents' = [agents EXCEPT ![key].comments_count = @ + 1]
              /\ Respond(t, 201, "CREATED")
  /\ UNCHANGED <<engineVars, posts, likes, now>>

MaxHours == 1

Hour == 3600

\* an hour passes, or an hour and a second
TickHour ==
  /\ now < 2 * POST_COOLDOWN + MaxHours * Hour
  /\ \E d \in {Hour, Hour + 1} : now' = now + d
  /\ UNCHANGED <<engineVars, agents, posts, comments, likes, rate_limits, apc, req, resp>>

\* the requests to POST /api/v1/posts/<post_id>/comments: to the first post
\* with a text, with a blank text and without one, and to a post that does not
\* exist
CommentBodies ==
  { [post_id |-> 1, text |-> "hi"],
    [post_id |-> 1, text |-> " "],
    [post_id |-> 1],
    [post_id |-> 2, text |-> "hi"] }

\* One agent makes a post; two request threads then serve its add_comment
\* requests at the same time.
NextComments ==
  \/ \E name \in PostNames : RegisterAgent(name)
  \/ \E data \in PostBodies : Receive(Caller, "post", Some(1), data)
  \/ CreatePost(Caller)
  \/ CreateImage(Caller) /\ UNCHANGED apiVars
  \/ Dispatch(Caller) /\ UNCHANGED apiVars
  \/ Step(Caller) /\ UNCHANGED apiVars
  \/ Encode(Caller) /\ UNCHANGED apiVars
  \/ FinishPost(Caller)
  \/ \E t \in Threads, data \in CommentBodies : Receive(t, "comment", Some(1), data)
  \/ \E t \in Threads : AddComment(t)
  \/ \E t \in Threads : FinishComment(t)
  \/ TickHour

SpecComments == Init /\ [][NextComments]_vars

\* register_agent, up to the answer of its SELECT: the name stripped and
\* looked up ignoring case. The connection has not begun a transaction: sqlite3
\* begins one at the INSERT.
RegisterCheck(t) ==
  /\ apc[t] = "received" /\ req[t].kind = "register"
  /\ LET data == req[t].data
     IN  IF "name" \notin DOMAIN data
           THEN Respond(t, 400, "VALIDATION_ERROR")
         ELSE IF \E k \in 1..Len(agents) : Lower(agents[k].name) = Lower(Strip(data.name))
           THEN Respond(t, 409, "NAME_TAKEN")
         ELSE /\ apc' = [apc EXCEPT ![t] = "register"]
              /\ UNCHANGED <<resp, req>>
  /\ UNCHANGED <<engineVars, agents, posts, comments, likes, rate_limits, now>>

\* register_agent, its INSERT and commit; name TEXT UNIQUE compares the names
\* as they are, and a violation leaves the handler as an exception
RegisterInsert(t) ==
  /\ apc[t] = "register"
  /\ LET name == Strip(req[t].data.name)
     IN  IF \E k \in 1..Len(agents) : agents[k].name = name
           THEN Respond(t, 500, "INTERNAL") /\ UNCHANGED agents
         ELSE /\ agents' = Append(agents, [name |-> name, artworks_count |-> 0,
                                           posts_count |-> 0, comments_count |-> 0,
                                           likes_given |-> 0, likes_received |-> 0])
              /\ Respond(t, 201, "CREATED")
  /\ UNCHANGED <<engineVars, posts, comments, likes, rate_limits, now>>

\* the bodies of the requests to POST /api/v1/agents/register
RegisterBodies ==
  { [name |-> "Ada"], [name |-> "ada"], [name |-> " Ada"], [name |-> "Bo"],
    [description |-> "no name"] }

\* Two request threads serve register_agent requests at the same time.
NextRegister ==
  \/ \E t \in Threads, data \in RegisterBodies : Receive(t, "register", None, data)
  \/ \E t \in Threads : RegisterCheck(t)
  \/ \E t \in Threads : RegisterInsert(t)

SpecRegister == Init /\ [][NextRegister]_vars

\* "SELECT 1 FROM likes WHERE post_id = ? AND agent_id = ?" finds a row
Liked(rows, post_id, agent_id) ==
  \E k \in 1..Len(rows) : rows[k].post_id = post_id /\ rows[k].agent_id = agent_id

\* like_post, up to the answers of its two SELECTs; the connection has not
\* begun a transaction
LikeCheck(t) ==
  /\ apc[t] = "received" /\ req[t].kind = "like"
  /\ IF AuthError(req[t].key) # None
       THEN Respond(t, 401, Val(AuthError(req[t].key)))
     ELSE IF req[t].data.post_id \notin 1..Len(posts)
       THEN Respond(t, 404, "NOT_FOUND")
     ELSE IF Liked(likes, req[t].data.post_id, Val(req[t].key))
       THEN Respond(t, 200, "ALREADY")
     ELSE /\ apc' = [apc EXCEPT ![t] = "like"]
          /\ UNCHANGED <<resp, req>>
  /\ UNCHANGED <<engineVars, agents, posts, comments, likes, rate_limits, now>>

\* like_post, its INSERT, its two UPDATEs and the commit; PRIMARY KEY
\* (post_id, agent_id) refuses a second row, and the exception leaves the
\* handler with nothing written
LikeInsert(t) ==
  /\ apc[t] = "like"
  /\ LET key == Val(req[t].key)
         post_id == req[t].data.post_id
         given == [agents EXCEPT ![key].likes_given = @ + 1]
     IN  IF Liked(likes, post_id, key)
           THEN Respond(t, 500, "INTERNAL") /\ UNCHANGED <<agents, likes>>
         ELSE /\ likes' = Append(likes, [post_id |-> post_id, agent_id |-> key])
              /\ agents' = [given EXCEPT ![posts[post_id].agent].likes_received = @ + 1]
              /\ Respond(t, 200, "LIKED")
  /\ UNCHANGED <<engineVars, posts, comments, rate_limits, now>>

\* unlike_post, up to the answers of its two SELECTs
UnlikeCheck(t) ==
  /\ apc[t] = "received" /\ req[t].kind = "unlike"
  /\ IF AuthError(req[t].key) # None
       THEN Respond(t, 401, Val(AuthError(req[t].key)))
     ELSE IF req[t].data.post_id \notin 1..Len(posts)
       THEN Respond(t, 404, "NOT_FOUND")
     ELSE IF ~Liked(likes, req[t].data.post_id, Val(req[t].key))
       THEN Respond(t, 200, "NOT_LIKED")
     ELSE /\ apc' = [apc EXCEPT ![t] = "unlike"]
          /\ UNCHANGED <<resp, req>>
  /\ UNCHANGED <<engineVars, agents, posts, comments, likes, rate_limits, now>>

\* unlike_post, its DELETE (of the rows there are), its two UPDATEs and the
\* commit
UnlikeDelete(t) ==
  /\ apc[t] = "unlike"
  /\ LET key == Val(req[t].key)
         post_id == req[t].data.post_id
         Other(row) == ~(row.post_id = post_id /\ row.agent_id = key)
         given == [agents EXCEPT ![key].likes_given = @ - 1]
     IN  /\ likes' = SelectSeq(likes, Other)
         /\ agents' = [given EXCEPT ![posts[post_id].agent].likes_received = @ - 1]
         /\ Respond(t, 200, "UNLIKED")
  /\ UNCHANGED <<engineVars, posts, comments, rate_limits, now>>

MaxUnlikes == 1

\* no like counter has fallen below -MaxUnlikes
LikesBounded ==
  \A k \in 1..Len(agents) :
    agents[k].likes_given >= -MaxUnlikes /\ agents[k].likes_received >= -MaxUnlikes

\* two agents
LikeNames == {"Ada", "Bo"}

\* the requests to like and unlike: of the first post, and of a post that
\* does not exist
LikeBodies == {[post_id |-> 1], [post_id |-> 2]}

\* The first agent makes a post; two request threads then serve the like_post
\* and unlike_post requests of both agents at the same time.
NextLikes ==
  \/ \E name \in LikeNames : RegisterAgent(name)
  \/ \E data \in PostBodies : Receive(Caller, "post", Some(1), data)
  \/ CreatePost(Caller)
  \/ CreateImage(Caller) /\ UNCHANGED apiVars
  \/ Dispatch(Caller) /\ UNCHANGED apiVars
  \/ Step(Caller) /\ UNCHANGED apiVars
  \/ Encode(Caller) /\ UNCHANGED apiVars
  \/ FinishPost(Caller)
  \/ \E t \in Threads, kind \in {"like", "unlike"}, key \in {Some(k) : k \in 1..MaxAgents},
        data \in LikeBodies :
       LikesBounded /\ Receive(t, kind, key, data)
  \/ \E t \in Threads : LikeCheck(t)
  \/ \E t \in Threads : LikeInsert(t)
  \/ \E t \in Threads : UnlikeCheck(t)
  \/ \E t \in Threads : UnlikeDelete(t)

SpecLikes == Init /\ [][NextLikes]_vars

MaxComments == 2

\* One request thread serves the requests of one agent one after another:
\* create_artwork, create_post and add_comment, with and without a valid key.
NextCounters ==
  \/ \E name \in PostNames : RegisterAgent(name)
  \/ \E kind \in {"artwork", "post"}, key \in ApiKeys, data \in ApiBodies :
       Receive(Caller, kind, key, data)
  \/ \E key \in ApiKeys, data \in CommentBodies :
       Len(comments) < MaxComments /\ Receive(Caller, "comment", key, data)
  \/ CreateArtwork(Caller)
  \/ CreatePost(Caller)
  \/ CreateImage(Caller) /\ UNCHANGED apiVars
  \/ Dispatch(Caller) /\ UNCHANGED apiVars
  \/ Step(Caller) /\ UNCHANGED apiVars
  \/ Encode(Caller) /\ UNCHANGED apiVars
  \/ FinishArtwork(Caller)
  \/ FinishPost(Caller)
  \/ EngineError(Caller)
  \/ AddComment(Caller)
  \/ FinishComment(Caller)
  \/ Tick

SpecCounters == Init /\ [][NextCounters]_vars

\* "SELECT * FROM comments WHERE post_id = ?", in insertion order; created_at
\* never decreases along the table, so this is also ORDER BY created_at ASC
CommentsOn(post_id) ==
  LET On(row) == row.post_id = post_id
  IN  SelectSeq(comments, On)

\* ORDER BY created_at DESC of rows in ascending order
Descending(rows) == [k \in 1..Len(rows) |-> rows[Len(rows) + 1 - k]]

\* LIMIT n
Limit(rows, n) == SubSeq(rows, 1, IF Len(rows) < n THEN Len(rows) ELSE n)

FeedCommentLimit == 10

\* get_posts: for each post of the feed, the comments it carries and its
\* stats.comments
GetPosts ==
  [post_id \in 1..Len(posts) |->
     LET shown == Limit(Descending(CommentsOn(post_id)), FeedCommentLimit)
     IN  [comments |-> shown, stats |-> [comments |-> Len(shown)]]]

\* get_post: the post's comments and its stats.comments
GetPost(post_id) ==
  [comments |-> CommentsOn(post_id), stats |-> [comments |-> Len(CommentsOn(post_id))]]

\* get_comments: the post's comments and their total
GetComments(post_id) ==
  [comments |-> CommentsOn(post_id), total |-> Len(CommentsOn(post_id))]

\* ---------------------------------------------------------- properties
Finished(t) == pc[t] = "done"

Raised(t) == pc[t] = "raised"

\* the generator of t's call has been chosen and entered
Entered(t) == pc[t] \in {"loop", "encode", "done", "raised"}

Supplied(params, key) == Get(OrEmpty(params), key, None)

Colours(ops) == {OpColor(ops[k]) : k \in 1..Len(ops)}

\* C1: a call with an explicit seed returns the image (or raises, as) generate
\* does for those arguments on a fresh engine: the outcome is a function of
\* (style, seed, params) alone, so any two calls with the same arguments give
\* the same output, whatever calls ran on the engine before or between them.
C1_Determinism ==
  \A t \in Threads :
    (args[t].seed # None /\ (Finished(t) \/ Raised(t))) =>
      LET alone == RenderFrom(args[t].style, SeedState(Val(args[t].seed)),
                              args[t].params, Size)
      IN  /\ Finished(t) => ~alone.raised /\ out[t] = Some(Encoded(alone.img))
          /\ Raised(t) => alone.raised

\* a seeded call that drew something has returned on an engine used before
C1_Witness ==
  \E t \in Threads :
    /\ Finished(t) /\ args[t].seed # None /\ mon[t].reused
    /\ ImgOps(Val(out[t])) # <<>>

\* C4: every call, seeded or not, has seeded the stream exactly once by the
\* time its generator runs, and no seeding happens during the call after that.
C4_SeededOnce ==
  \A t \in Threads : Entered(t) => mon[t].seedings = 1

\* C5: a call that raises has drawn nothing.
C5_FailFast ==
  \A t \in Threads : Raised(t) => mon[t].drawn = <<>>

\* C6: with one of the 15 styles, a palette that is absent or non-empty and a
\* complexity in [0, 1], no call raises.
C6_Completes ==
  \A t \in Threads : args[t].style \in StyleKeys => ~Raised(t)

\* C7: a call with one of the 15 styles runs that style's generator; a call
\* with any other style runs geometric_minimalist, never raises, and returns
\* what generate('geometric_minimalist', ...) returns from the same stream
\* state with the same params.
C7_DispatcherFallback ==
  \A t \in Threads :
    Entered(t) =>
      IF args[t].style \in StyleKeys
        THEN loc[t].generator = args[t].style
        ELSE /\ loc[t].generator = "geometric_minimalist"
             /\ ~Raised(t)
             /\ Finished(t) =>
                  out[t] = Some(Encoded(RenderFrom("geometric_minimalist", mon[t].start,
                                                   args[t].params, Size).img))

\* a call with an unknown style has returned an image with something on it
C7_Witness ==
  \E t \in Threads :
    /\ Finished(t) /\ args[t].style \in UnknownStyles
    /\ ImgOps(Val(out[t])) # <<>>

\* C9: the engine's size stays the one it was constructed with, and every
\* canvas (the one self.img refers to, the one self.draw is bound to, the one
\* returned) is size x size.
C9_DimensionInvariance ==
  /\ self.size = Size
  /\ "img" \in DOMAIN self => self.img[1] = Size /\ self.img[2] = Size
  /\ ("draw" \in DOMAIN self /\ self.draw # Same) =>
        self.draw[1][1] = Size /\ self.draw[1][2] = Size
  /\ \A t \in Threads :
       out[t] # None => Val(out[t])[1] = Size /\ Val(out[t])[2] = Size

\* a later call on the same engine has returned its canvas
C9_Witness ==
  \E t \in Threads :
    /\ Finished(t) /\ mon[t].reused
    /\ Val(out[t])[1] = Size /\ Val(out[t])[2] = Size

\* C10: when geometric_minimalist or organic_flow runs with a supplied
\* non-empty palette, the colour of every draw call it issues is a member of
\* that palette.
C10_PaletteAdherence ==
  \A t \in Threads :
    ( /\ Entered(t)
      /\ loc[t].generator \in {"geometric_minimalist", "organic_flow"}
      /\ Supplied(args[t].params, "palette") # None
      /\ Val(Supplied(args[t].params, "palette")) # <<>> ) =>
      Colours(mon[t].drawn) \subseteq Range(Val(Supplied(args[t].params, "palette")))

\* organic_flow has drawn all its curves with a supplied palette
C10_Witness ==
  \E t \in Threads :
    /\ Finished(t) /\ loc[t].generator = "organic_flow"
    /\ Supplied(args[t].params, "palette") = Some(PaletteTwo)
    /\ Len(mon[t].drawn) >= 5

\* C2: every value a call draws is the value its own stream, seeded at the
\* call's start and advanced by this call alone, would give it at that point.
C2_RngIsolation ==
  \A t \in Threads : mon[t].alone

\* C3: a returned image holds exactly the draw calls the call's own generator
\* issued, and the generator worked with the palette and the count that the
\* call's own params give.
C3_StateIsolation ==
  \A t \in Threads :
    /\ Finished(t) => ImgOps(Val(out[t])) = mon[t].drawn
    /\ Entered(t) =>
         /\ loc[t].palette = LocalPalette(loc[t].generator, Supplied(args[t].params, "palette"))
         /\ loc[t].n = Count(loc[t].generator, Get(OrEmpty(args[t].params), "complexity", 7))

\* the request r carries the key of a registered agent
Authenticated(r) == r.key # None /\ Val(r.key) \in 1..Len(agents)

\* the request r names a style, and it is not one of VALID_STYLES
InvalidStyle(r) == "style" \in DOMAIN r.data /\ r.data.style \notin Range(VALID_STYLES)

\* this step is t's handler answering the request
Answers(t) == apc[t] = "received" /\ apc'[t] = "idle"

\* this step calls no generate, inserts no post and leaves the agents' counts
\* and the requester's last_post as they are
NothingCreated(t) ==
  /\ UNCHANGED <<engineVars, posts, agents>>
  /\ LastPost(rate_limits', Val(req[t].key)) = LastPost(rate_limits, Val(req[t].key))

\* the post cooldown of the requester has not run out
CoolingDown(t) == now - LastPost(rate_limits, Val(req[t].key)) < POST_COOLDOWN

InvalidStyleResponse(t) == [status |-> 400, code |-> "INVALID_STYLE", to |-> req[t].kind]

\* C8 as stated: the handler of an authenticated create_artwork or create_post
\* request whose style is not in VALID_STYLES answers in one step with 400
\* INVALID_STYLE, and that step calls no generate, inserts no post and changes
\* no count and no last_post.
C8_AlwaysInvalidStyle ==
  [][\A t \in Threads :
       (apc[t] = "received" /\ apc'[t] # "received"
        /\ Authenticated(req[t]) /\ InvalidStyle(req[t])) =>
         /\ resp'[t] = InvalidStyleResponse(t)
         /\ NothingCreated(t)]_vars

\* C8, amended: the same, except that create_post answers 429 RATE_LIMITED
\* instead when the agent's post cooldown has not run out (check_rate_limit
\* runs before the style is looked at); nothing is created either way.
C8_StyleValidation ==
  [][\A t \in Threads :
       (apc[t] = "received" /\ apc'[t] # "received"
        /\ Authenticated(req[t]) /\ InvalidStyle(req[t])) =>
         /\ Answers(t)
         /\ NothingCreated(t)
         /\ resp'[t] = IF req[t].kind = "post" /\ CoolingDown(t)
                         THEN [status |-> 429, code |-> "RATE_LIMITED", to |-> "post"]
                         ELSE InvalidStyleResponse(t)]_vars

\* create_post has answered 400 INVALID_STYLE to an agent when a post exists
C8_Witness ==
  \E t \in Threads :
    /\ resp[t] = [status |-> 400, code |-> "INVALID_STYLE", to |-> "post"]
    /\ posts # <<>>

\* the params with the palette replaced by palette (None: no palette given)
WithPalette(params, palette) ==
  Some([complexity |-> Get(OrEmpty(params), "complexity", 7), palette |-> palette])

Channels(c) == {c[k] : k \in 1..Len(c)}

\* C11: a finished spectral_fragmentation call returns the image that the same
\* call returns with no palette or with any other palette, and every fill
\* colour it used has a channel equal to 180 and a channel equal to 0 (so it
\* is not <<0, 0, 0>>).
C11_SpectralPaletteIndependence ==
  \A t \in Threads :
    (Entered(t) /\ loc[t].generator = "spectral_fragmentation") =>
      /\ \A k \in 1..Len(mon[t].drawn) :
           /\ 180 \in Channels(OpColor(mon[t].drawn[k]))
           /\ 0 \in Channels(OpColor(mon[t].drawn[k]))
           /\ OpColor(mon[t].drawn[k]) # <<0, 0, 0>>
      /\ Finished(t) =>
           \A palette \in {None, Some(PaletteOne), Some(PaletteTwo)} :
             out[t] = Some(Encoded(RenderFrom(args[t].style, mon[t].start,
                                              WithPalette(args[t].params, palette), Size).img))

\* spectral_fragmentation has returned its triangles for a call with a palette
C11_Witness ==
  \E t \in Threads :
    /\ Finished(t) /\ loc[t].generator = "spectral_fragmentation"
    /\ Supplied(args[t].params, "palette") = Some(PaletteTwo)
    /\ Len(ImgOps(Val(out[t]))) >= 15

\* the styles whose generator computes an element count from self.complexity
CountStyles ==
  { "geometric_minimalist", "organic_flow", "void_exploration",
    "spectral_fragmentation", "symbolic_language", "frequency_visualization",
    "logical_structures", "generative_growth", "network_topology",
    "spiral_dynamics" }

\* the loop of the generator that runs once per element
ElementLoop(style) == IF style = "void_exploration" THEN 2 ELSE 1

\* the number of iterations of loop ph that t's call has run
Ran(t, ph) == IF ph <= Len(mon[t].iters) THEN mon[t].iters[ph] ELSE 0

\* the complexity t's call was given
Complexity(t) == Get(OrEmpty(args[t].params), "complexity", 7)

\* C12: when a call of a counting style has finished at complexity c2, the
\* number of elements it produced is at least the element count of that style
\* at every complexity c1 <= c2 in [0, 1].
C12_MonotonicDensity ==
  \A t \in Threads :
    (Finished(t) /\ loc[t].generator \in CountStyles) =>
      \A c1 \in 0..Complexity(t) :
        Count(loc[t].generator, c1) <= Ran(t, ElementLoop(loc[t].generator))

\* network_topology has finished at complexity 1.0 with its 35 nodes
C12_Witness ==
  \E t \in Threads :
    /\ Finished(t) /\ loc[t].generator = "network_topology"
    /\ Complexity(t) = 10
    /\ Ran(t, 1) = 35

\* floor(a + b * c) for the complexity c >= 0 of t's call
Floor(t, a, b) == (10 * a + b * Complexity(t)) \div 10

\* the cells (i, j) of the draw calls of _logical_structures
Cells(ops) == {<<ops[k][4][Len(ops[k][4]) - 1], ops[k][4][Len(ops[k][4])]>> : k \in 1..Len(ops)}

NodeAt(v) == (Size * RngMod) \div 10 + ((8 * Size) \div 10) * v

\* the squared distance of two nodes, in 1/RngMod of a pixel
Distance2(node1, node2) ==
  (NodeAt(node1[1]) - NodeAt(node2[1])) * (NodeAt(node1[1]) - NodeAt(node2[1]))
    + (NodeAt(node1[2]) - NodeAt(node2[2])) * (NodeAt(node1[2]) - NodeAt(node2[2]))

Closer200(node1, node2) == Distance2(node1, node2) < (200 * RngMod) * (200 * RngMod)

\* the edges among the draw calls of _network_topology, as <<i, j>>
Edges(ops) == {k \in 1..Len(ops) : ops[k][1] = "line"}

\* C14: every edge network_topology draws joins nodes i < j of the node list
\* whose distance is below 200, and no pair of nodes gets two edges.
C14_NetworkEdgeBound ==
  \A t \in Threads :
    (Entered(t) /\ loc[t].generator = "network_topology") =>
      LET ops == mon[t].drawn
          nodes == loc[t].aux
      IN  /\ \A k \in Edges(ops) :
                /\ 0 <= ops[k][4][1] /\ ops[k][4][1] < ops[k][4][2]
                /\ ops[k][4][2] < Len(nodes)
                /\ Closer200(At(nodes, ops[k][4][1]), At(nodes, ops[k][4][2]))
          /\ \A k1, k2 \in Edges(ops) : ops[k1][4] = ops[k2][4] => k1 = k2

\* network_topology has drawn an edge, and two of its nodes are 200 or more
\* apart
C14_Witness ==
  \E t \in Threads :
    /\ Finished(t) /\ loc[t].generator = "network_topology"
    /\ Edges(mon[t].drawn) # {}
    /\ \E i, j \in 1..Len(loc[t].aux) : ~Closer200(loc[t].aux[i], loc[t].aux[j])

\* the posts of the agent with the given key, as places in the posts table
PostsOf(key) == {k \in 1..Len(posts) : posts[k].agent = key}

\* C15: however create_post requests interleave, two posts of one agent are
\* at least POST_COOLDOWN apart, and an agent's cooldown runs from one of its
\* posts only (a rejected request neither starts nor extends it).
C15_PostCooldown ==
  \A key \in 1..Len(agents) :
    /\ \A k1, k2 \in PostsOf(key) :
         k1 < k2 => posts[k2].created_at - posts[k1].created_at >= POST_COOLDOWN
    /\ key \in DOMAIN rate_limits =>
         \/ rate_limits[key].last_post = 0
         \/ \E k \in PostsOf(key) : posts[k].created_at = rate_limits[key].last_post

\* the comments the agent with the given key made after the time given
CommentsSince(key, time) ==
  {k \in 1..Len(comments) : comments[k].agent_id = key /\ comments[k].created_at > time}

\* C16: however add_comment requests interleave, the stored comment_count of a
\* key never exceeds COMMENTS_PER_HOUR, and no more than COMMENTS_PER_HOUR of
\* its comments were accepted since the last reset of its window.
C16_CommentLimit ==
  \A key \in DOMAIN rate_limits :
    /\ rate_limits[key].comment_count <= COMMENTS_PER_HOUR
    /\ Cardinality(CommentsSince(key, rate_limits[key].comment_reset)) <= COMMENTS_PER_HOUR

\* C17: however register_agent requests interleave, no two agents have names
\* that are equal ignoring case.
C17_NameUniqueness ==
  \A k1, k2 \in 1..Len(agents) :
    Lower(agents[k1].name) = Lower(agents[k2].name) => k1 = k2

\* the direction of a spiral, from the draw call of its arm
Direction(op) == op[4][3]

\* C18: in spiral_dynamics the direction of rotation alternates from one
\* spiral to the next, and spiral s is drawn in palette[s mod |palette|].
C18_SpiralAlternation ==
  \A t \in Threads :
    (Entered(t) /\ loc[t].generator = "spiral_dynamics") =>
      LET ops == mon[t].drawn
      IN  \A k \in 1..Len(ops) :
            /\ OpColor(ops[k]) = At(loc[t].palette, (k - 1) % Len(loc[t].palette))
            /\ k > 1 => Direction(ops[k]) = -Direction(ops[k - 1])

\* the polygons among the draw calls of _symbolic_language
Polygons(ops) == {k \in 1..Len(ops) : ops[k][1] = "polygon"}

\* C19: symbolic_language draws its glyphs with ellipses, lines and polygons
\* only, and every polygon glyph has between 4 and 6 vertices, as many as it
\* has jittered radii.
C19_GlyphVertices ==
  \A t \in Threads :
    (Entered(t) /\ loc[t].generator = "symbolic_language") =>
      LET ops == mon[t].drawn
      IN  /\ \A k \in 1..Len(ops) : ops[k][1] \in {"ellipse", "line", "polygon"}
          /\ \A k \in Polygons(ops) :
               /\ 4 <= ops[k][4][1] /\ ops[k][4][1] <= 6
               /\ Len(ops[k][4]) = 4 + ops[k][4][1]

RECURSIVE SquareEnd(_, _, _, _, _, _), Quadrant(_, _, _, _, _, _)
\* Reads the draw calls from ops[i] on as the square of the given centre, size
\* (in 1/2560 of a pixel) and depth, followed by the squares of those of its
\* four quadrants that were spawned, in the order of the calls. The result is
\* the place after them, or -1 when the draw calls are not of that form.
SquareEnd(ops, i, x, y, sz, depth) ==
  IF i < 1 \/ i > Len(ops) THEN -1
  ELSE IF ops[i][1] # "rectangle" \/ ops[i][4] # <<x, y, sz>> THEN -1
  ELSE IF depth <= 0 \/ sz < 5 * 2560 THEN -1
  ELSE
    LET q1 == Quadrant(ops, i + 1, x - sz \div 4, y - sz \div 4, sz \div 2, depth - 1)
        q2 == Quadrant(ops, q1, x + sz \div 4, y - sz \div 4, sz \div 2, depth - 1)
        q3 == Quadrant(ops, q2, x - sz \div 4, y + sz \div 4, sz \div 2, depth - 1)
    IN  Quadrant(ops, q3, x + sz \div 4, y + sz \div 4, sz \div 2, depth - 1)

\* a quadrant's square and what follows from it, when ops[i] is that square
Quadrant(ops, i, x, y, sz, depth) ==
  IF i = -1 THEN -1
  ELSE IF i <= Len(ops) /\ ops[i][4] = <<x, y, sz>> THEN SquareEnd(ops, i, x, y, sz, depth)
  ELSE i

RECURSIVE BranchEnd(_, _, _), Twigs(_, _, _, _, _)
\* Reads the draw calls from ops[i] on as a segment (its depth between 1 and
\* 8, its length, in 1/100 of a pixel, 3 or more) followed by its children.
\* The result is the place after them, or -1.
BranchEnd(ops, i, depth) ==
  IF i < 1 \/ i > Len(ops) THEN -1
  ELSE IF ops[i][1] # "line" \/ ops[i][4][1] # depth THEN -1
  ELSE IF depth <= 0 \/ depth > 8 \/ ops[i][4][3] < 300 THEN -1
  ELSE Twigs(ops, i + 1, depth - 1, ops[i][4][3], 0)

\* the children of a segment of length len, count of them read so far: at
\* most 3, each of the given depth and 0.6 to 0.9 times as long, and 2 or more
\* where no child can be too short or too deep to be drawn
Twigs(ops, i, depth, len, count) ==
  IF i = -1 THEN -1
  ELSE IF i <= Len(ops) /\ ops[i][4][1] = depth /\ depth > 0
    THEN IF count >= 3 THEN -1
         ELSE IF ~(60 * len < 100 * (ops[i][4][3] + 1) /\ 100 * ops[i][4][3] < 90 * len)
           THEN -1
         ELSE Twigs(ops, BranchEnd(ops, i, depth), depth, len, count + 1)
  ELSE IF depth > 0 /\ 60 * len >= 100 * 300 /\ count < 2 THEN -1
  ELSE i

RECURSIVE Trees(_, _)
\* the draw calls from ops[i] on are trees, each from a root of depth 8 and of
\* length 80 to 120
Trees(ops, i) ==
  IF i = -1 THEN FALSE
  ELSE IF i > Len(ops) THEN TRUE
  ELSE /\ ops[i][4][1] = 8
       /\ 8000 <= ops[i][4][3] /\ ops[i][4][3] < 12000
       /\ Trees(ops, BranchEnd(ops, i, 8))

\* C20: recursive_patterns draws a square of depth 6 and, below every square,
\* at most its four quadrants' squares of half the size and one depth less, none
\* at depth 0 or less or of a size below 5; generative_growth draws trees whose
\* roots have depth 8 and whose segments have 2 or 3 children (fewer only
\* where a child would be too short or too deep) of one depth less and 0.6 to
\* 0.9 times the length, none at depth 0 or less or shorter than 3. Either
\* recursion ends: no more squares are drawn than a tree of 6 levels with 4
\* children each has, no more segments than as many trees of 8 levels with 3
\* children each have as there are roots.
C20_BoundedRecursion ==
  \A t \in Threads :
    /\ (Entered(t) /\ loc[t].generator = "recursive_patterns" /\ mon[t].drawn # <<>>) =>
         /\ SquareEnd(mon[t].drawn, 1, 1280 * Size, 1280 * Size, 1792 * Size, 6)
              = Len(mon[t].drawn) + 1
         /\ Len(mon[t].drawn) <= 1 + 4 + 16 + 64 + 256 + 1024
    /\ (Entered(t) /\ loc[t].generator = "generative_growth") =>
         /\ Trees(mon[t].drawn, 1)
         /\ Len(mon[t].drawn) <= loc[t].n * ((6561 - 1) \div 2)

\* recursive_patterns has returned an image with a square of depth 1 and fewer
\* squares than the full tree has
C20_Witness ==
  \E t \in Threads :
    /\ Finished(t) /\ loc[t].generator = "recursive_patterns"
    /\ \E k \in 1..Len(mon[t].drawn) : mon[t].drawn[k][4][3] = (1792 * Size) \div 32
    /\ Len(mon[t].drawn) < 1365

\* the terms <<a, b>> of the count int(a + complexity * b) of a counting style
CountTerms(style) ==
  CASE style = "geometric_minimalist" -> <<2, 4>>
    [] style = "organic_flow" -> <<5, 8>>
    [] style = "void_exploration" -> <<3, 5>>
    [] style = "spectral_fragmentation" -> <<15, 20>>
    [] style = "symbolic_language" -> <<8, 10>>
    [] style = "frequency_visualization" -> <<8, 8>>
    [] style = "logical_structures" -> <<4, 3>>
    [] style = "generative_growth" -> <<2, 3>>
    [] style = "network_topology" -> <<15, 20>>
    [] OTHER -> <<2, 3>>

\* int(tenths / 10), towards zero
Truncated(tenths) == IF tenths >= 0 THEN tenths \div 10 ELSE -((-tenths) \div 10)

\* int(a + c * b) for the complexity c that t's call was given, as it is
RawCount(t, style) ==
  Truncated(10 * CountTerms(style)[1] + CountTerms(style)[2] * Complexity(t))

\* C21: while a call runs, self.complexity is the value of params['complexity']
\* as given (0.7 when absent), whatever its range, and a counting style that
\* has finished has produced int(a + complexity * b) elements for that raw
\* value (none when that is negative): 12 shapes for geometric_minimalist at
\* complexity 2.5.
C21_ComplexityUnclamped ==
  \A t \in Threads :
    /\ InCall(t) => self.complexity = Complexity(t)
    /\ (Finished(t) /\ loc[t].generator \in CountStyles) =>
         /\ loc[t].n = RawCount(t, loc[t].generator)
         /\ Ran(t, ElementLoop(loc[t].generator)) = Max(RawCount(t, loc[t].generator), 0)
    /\ (Finished(t) /\ loc[t].generator = "geometric_minimalist" /\ Complexity(t) = 25) =>
         Len(mon[t].drawn) = 12

\* geometric_minimalist has finished at complexity 2.5 with 12 shapes, twice
\* the 6 of complexity 1.0
C21_Witness ==
  \E t \in Threads :
    /\ Finished(t) /\ loc[t].generator = "geometric_minimalist"
    /\ Complexity(t) = 25
    /\ Len(mon[t].drawn) = 12
    /\ Count("geometric_minimalist", 10) = 6

\* C22: with no palette given, a call of any style at any complexity, negative
\* ones and ones above 1 included, never raises, and a count that is zero or
\* negative makes the call draw no element of that kind.
C22_AnyComplexityCompletes ==
  \A t \in Threads :
    /\ Supplied(args[t].params, "palette") = None => ~Raised(t)
    /\ (Finished(t) /\ loc[t].generator \in CountStyles /\ loc[t].n <= 0) =>
         Ran(t, ElementLoop(loc[t].generator)) = 0

\* the like rows the agent owns, and those on the agent's posts
LikesBy(key) == {k \in 1..Len(likes) : likes[k].agent_id = key}

LikesOn(key) == {k \in 1..Len(likes) : posts[likes[k].post_id].agent = key}

\* C23: however like_post and unlike_post requests interleave, the likes table
\* has at most one row for a post and an agent, an agent's likes_given is the
\* number of like rows it owns and its likes_received the number of like rows
\* on its posts, and neither is negative.
C23_LikeBookkeeping ==
  /\ \A k1, k2 \in 1..Len(likes) : likes[k1] = likes[k2] => k1 = k2
  /\ \A key \in 1..Len(agents) :
       /\ agents[key].likes_given = Cardinality(LikesBy(key))
       /\ agents[key].likes_received = Cardinality(LikesOn(key))
       /\ agents[key].likes_given >= 0 /\ agents[key].likes_received >= 0

\* the comments of the agent with the given key, as places in the table
CommentsOf(key) == {k \in 1..Len(comments) : comments[k].agent_id = key}

\* posts_count and comments_count of every agent count its rows
RowsCounted ==
  \A key \in 1..Len(agents) :
    /\ agents[key].posts_count = Cardinality(PostsOf(key))
    /\ agents[key].comments_count = Cardinality(CommentsOf(key))

\* this step answers a request of thread t with the given status
AnswersWith(t, statuses) == resp'[t] # resp[t] /\ resp'[t].status \in statuses

\* 1 when this step answers 201 to a create_artwork or create_post request
\* that thread t serves for the agent with the given key, else 0
Made(t, key) ==
  IF /\ AnswersWith(t, {201})
     /\ req[t].kind \in {"artwork", "post"}
     /\ req[t].key = Some(key)
  THEN 1 ELSE 0

\* C24: served one after another, the requests keep each agent's posts_count
\* equal to the number of its posts and its comments_count to the number of
\* its comments; artworks_count grows by one with every create_artwork and
\* every create_post of the agent that is answered 201, and by nothing else; a
\* request answered 401, 400, 404 or 429 leaves the agents table as it was.
C24_AgentCounters ==
  [][ /\ RowsCounted'
      /\ \A key \in 1..Len(agents) :
           agents'[key].artworks_count =
             agents[key].artworks_count + Made("t1", key) + Made("t2", key)
      /\ \A key \in (Len(agents) + 1)..Len(agents') : agents'[key].artworks_count = 0
      /\ \A t \in Threads : AnswersWith(t, {401, 400, 404, 429}) => agents' = agents
    ]_vars

\* the agent has made an artwork, a post and two comments, and its last
\* request was refused
C24_Witness ==
  /\ Len(agents) >= 1
  /\ agents[1].artworks_count = 2 /\ agents[1].posts_count = 1
  /\ agents[1].comments_count = 2
  /\ resp[Caller].status \in {401, 400, 404, 429}

\* C25: for every post of the feed, the stats.comments that get_posts
\* reports is the number of comments stored for the post, the value that
\* get_post and get_comments report for it.
C25_FeedCommentCount ==
  \A post_id \in 1..Len(posts) :
    /\ GetPosts[post_id].stats.comments
         = Cardinality({k \in 1..Len(comments) : comments[k].post_id = post_id})
    /\ GetPosts[post_id].stats.comments = GetPost(post_id).stats.comments
    /\ GetPosts[post_id].stats.comments = GetComments(post_id).total

====
